---- MODULE Spec2Model ----
(***************************************************************************)
(* Model of the core of mediapipe-fun: the EMA point smoother              *)
(* (smoothing.py), the rectangle geometry (geometry.py) and the rectangle  *)
(* controller (rectangle_controller.py), with the same classes of main.py. *)
(*                                                                         *)
(* The smoother computes int(px * (1 - alpha) + nx * alpha) in Python      *)
(* floats (IEEE-754 binary64, round to nearest, ties to even).  The model  *)
(* computes the same value: a float is a sign and a magnitude, the         *)
(* magnitude an exact multiple of 2^-60 held in five 15-bit limbs (least   *)
(* significant first; limbs 1..4 are the fraction, limb 5 the integer      *)
(* part), and every float operation rounds its exact result to 53          *)
(* significant bits.  This is exact for |coordinates| < 2^14 and for       *)
(* alpha = 0 or alpha >= 2^-4, which the sets below respect.               *)
(*                                                                         *)
(* Spec drives a RectangleController the way InverterApp does: update with *)
(* the points of a frame, reset on the R key.  SmSpec drives one           *)
(* EMASmoother on its own.  Each records the last call, its arguments, its *)
(* result and what the object held when the call began.  CtorSpec starts   *)
(* before the constructor and gives it, and the calls after it,            *)
(* configurations, point lists and frame sizes of any kind.  ScenarioSpec  *)
(* is the controller of the end-to-end scenario.  GeoSpec calls the        *)
(* methods of a Rect on its own.  RunSpec is the frame loop of             *)
(* InverterApp.run(), of the package and of main.py.  EquivSpec builds the *)
(* RectangleController of the package and the one of main.py from one      *)
(* configuration and gives both the same calls.                            *)
(***************************************************************************)
EXTENDS Integers, Sequences, FiniteSets, TLC

\* ------------------------------------------------------------------------
\* Python float arithmetic (binary64)
\* ------------------------------------------------------------------------

\* width of a limb of a magnitude, in bits
LimbBits == 15

\* limbs of a float magnitude: four fraction limbs and the integer limb
NumLimbs == 5

\* significant bits of a binary64 float
MantBits == 53

Base == 2 ^ LimbBits

Pow2(k) == 2 ^ k

Abs(k) == IF k < 0 THEN -k ELSE k

BigZero(n) == [i \in 1..n |-> 0]

\* the limbs i.. of a + b + c, for a carry c
RECURSIVE AddFrom(_, _, _, _)
AddFrom(a, b, i, c) ==
    IF i > Len(a) THEN <<>>
    ELSE LET s == a[i] + b[i] + c
         IN  <<s % Base>> \o AddFrom(a, b, i + 1, s \div Base)

\* a + b
BigAdd(a, b) == AddFrom(a, b, 1, 0)

\* the limbs i.. of a - b - w, for a borrow w
RECURSIVE SubFrom(_, _, _, _)
SubFrom(a, b, i, w) ==
    IF i > Len(a) THEN <<>>
    ELSE LET s == a[i] - b[i] - w
         IN  IF s < 0 THEN <<s + Base>> \o SubFrom(a, b, i + 1, 1)
             ELSE <<s>> \o SubFrom(a, b, i + 1, 0)

\* a - b for a >= b
BigSub(a, b) == SubFrom(a, b, 1, 0)

\* a < b
BigLess(a, b) ==
    \E i \in 1..Len(a) : /\ a[i] < b[i]
                         /\ \A j \in (i+1)..Len(a) : a[j] = b[j]

\* the limbs i.. of a * k + c, for a small natural k and a carry c
RECURSIVE MulFrom(_, _, _, _)
MulFrom(a, k, i, c) ==
    IF i > Len(a) THEN <<>>
    ELSE LET s == a[i] * k + c
         IN  <<s % Base>> \o MulFrom(a, k, i + 1, s \div Base)

\* a * k for a small natural k
BigMulSmall(a, k) == MulFrom(a, k, 1, 0)

\* number of bits of a limb value
RECURSIVE LimbLen(_)
LimbLen(x) == IF x = 0 THEN 0 ELSE 1 + LimbLen(x \div 2)

\* number of bits of the limbs 1..h of a (position of the leading one, 0 for
\* zero)
RECURSIVE BitLenFrom(_, _)
BitLenFrom(a, h) ==
    IF h = 0 THEN 0
    ELSE IF a[h] # 0 THEN LimbBits * (h - 1) + LimbLen(a[h])
    ELSE BitLenFrom(a, h - 1)

BitLen(a) == BitLenFrom(a, Len(a))

\* bit i of a (bit 0 is the least significant)
Bit(a, i) == (a[(i \div LimbBits) + 1] \div Pow2(i % LimbBits)) % 2

\* a with its d low bits cleared
ClearLow(a, d) ==
    [j \in 1..Len(a) |->
        IF LimbBits * j <= d THEN 0
        ELSE IF LimbBits * (j - 1) >= d THEN a[j]
        ELSE a[j] - (a[j] % Pow2(d - LimbBits * (j - 1)))]

\* the magnitude 2^d
BigPow2(d, n) ==
    [j \in 1..n |-> IF j = (d \div LimbBits) + 1 THEN Pow2(d % LimbBits) ELSE 0]

\* Rounding of an exact magnitude to MantBits significant bits, to nearest,
\* ties to even: the d low bits are dropped, and the rest goes up by one unit
\* when the dropped part is more than half a unit, or is half a unit and the
\* rest is odd.  inexact says that the exact value has further non-zero bits
\* below those of a.
RoundAt(a, inexact, d) ==
    IF d <= 0 THEN a
    ELSE IF /\ Bit(a, d - 1) = 1
            /\ (inexact \/ Bit(a, d) = 1 \/ ClearLow(a, d - 1) # a)
         THEN BigAdd(ClearLow(a, d), BigPow2(d, Len(a)))
         ELSE ClearLow(a, d)

RoundSig(a, inexact) == RoundAt(a, inexact, BitLen(a) - MantBits)

RoundToDouble(a) == RoundSig(a, FALSE)

\* float(k) for an int k
FloatOfInt(k) ==
    [neg |-> k < 0,
     mag |-> [i \in 1..NumLimbs |-> IF i = NumLimbs THEN Abs(k) ELSE 0]]

\* The float a decimal literal num/den (0 <= num <= den) denotes: the
\* binary64 value nearest to the quotient.  The quotient is developed to one
\* limb more than a magnitude holds, rounded, and the spare limb dropped.
FloatOfRatio(num, den) ==
    LET n == NumLimbs + 1
        r[i \in 1..n] == IF i = n THEN num % den ELSE (r[i+1] * Base) % den
        q == [i \in 1..n |-> IF i = n THEN num \div den
                             ELSE (r[i+1] * Base) \div den]
        m == RoundSig(q, r[1] # 0)
    IN  [neg |-> FALSE, mag |-> [i \in 1..NumLimbs |-> m[i+1]]]

\* -f
FloatNeg(f) == [neg |-> ~f.neg, mag |-> f.mag]

\* the float a signed decimal literal num/den denotes
FloatOfLiteral(num, den) ==
    IF num < 0 THEN FloatNeg(FloatOfRatio(-num, den))
    ELSE FloatOfRatio(num, den)

\* x + y
FloatAdd(x, y) ==
    IF x.neg = y.neg
    THEN [neg |-> x.neg, mag |-> RoundToDouble(BigAdd(x.mag, y.mag))]
    ELSE IF BigLess(x.mag, y.mag)
         THEN [neg |-> y.neg, mag |-> RoundToDouble(BigSub(y.mag, x.mag))]
         ELSE [neg |-> x.neg, mag |-> RoundToDouble(BigSub(x.mag, y.mag))]

\* x - y
FloatSub(x, y) == FloatAdd(x, FloatNeg(y))

\* k * f for an int k and a float f: k is converted to float, the product
\* rounded
FloatMulInt(k, f) ==
    [neg |-> (k < 0) # f.neg,
     mag |-> RoundToDouble(BigMulSmall(f.mag, Abs(k)))]

\* x <= y on floats
FloatLeq(x, y) ==
    LET xz == x.mag = BigZero(NumLimbs)
        yz == y.mag = BigZero(NumLimbs)
    IN  IF xz /\ yz THEN TRUE
        ELSE IF x.neg /\ ~xz
             THEN IF y.neg /\ ~yz THEN ~BigLess(x.mag, y.mag) ELSE TRUE
             ELSE IF y.neg /\ ~yz THEN FALSE ELSE ~BigLess(y.mag, x.mag)

\* math.floor(f) in the place of int(f)
IntOfFloat_floor(f) ==
    IF f.neg /\ \E i \in 1..(NumLimbs - 1) : f.mag[i] # 0
    THEN -(f.mag[NumLimbs]) - 1
    ELSE IF f.neg THEN -(f.mag[NumLimbs]) ELSE f.mag[NumLimbs]

\* int(f): truncation toward zero
IntOfFloat(f) == IF f.neg THEN -(f.mag[NumLimbs]) ELSE f.mag[NumLimbs]

\* ------------------------------------------------------------------------
\* Values
\* ------------------------------------------------------------------------

\* Optional[...]: None is the empty sequence, a present value v is <<v>>
None == <<>>

Some(v) == <<v>>

\* geometry.py: Point
Point(x, y) == [x |-> x, y |-> y]

\* geometry.py: Rect
Rect(x1, y1, x2, y2) == [x1 |-> x1, y1 |-> y1, x2 |-> x2, y2 |-> y2]

Min(a, b) == IF a <= b THEN a ELSE b

Max(a, b) == IF a >= b THEN a ELSE b

\* sorted([a, b])
Sorted2(a, b) == IF b < a THEN <<b, a>> ELSE <<a, b>>

\* ------------------------------------------------------------------------
\* geometry.py: Rect.ordered, Rect.clamp, Rect.valid
\* ------------------------------------------------------------------------

\* ordered that exchanges the two corners when the first is right of the
\* second
ordered_joint(r) ==
    IF r.x2 < r.x1 THEN Rect(r.x2, r.y2, r.x1, r.y1) ELSE r

\* ordered that sorts the x pair only
ordered_x(r) ==
    LET a == Sorted2(r.x1, r.x2)
    IN  Rect(a[1], r.y1, a[2], r.y2)

ordered(r) ==
    LET a == Sorted2(r.x1, r.x2)
        b == Sorted2(r.y1, r.y2)
    IN  Rect(a[1], b[1], a[2], b[2])

\* clamp that bounds by w and h instead of w - 1 and h - 1
clamp_inclusive(r, w, h) ==
    LET x1 == Max(0, Min(r.x1, w))
        x2 == Max(0, Min(r.x2, w))
        y1 == Max(0, Min(r.y1, h))
        y2 == Max(0, Min(r.y2, h))
    IN  ordered(Rect(x1, y1, x2, y2))

clamp(r, w, h) ==
    LET x1 == Max(0, Min(r.x1, w - 1))
        x2 == Max(0, Min(r.x2, w - 1))
        y1 == Max(0, Min(r.y1, h - 1))
        y2 == Max(0, Min(r.y2, h - 1))
    IN  ordered(Rect(x1, y1, x2, y2))

\* valid that asks for one large side only
valid_either(r, min_size) ==
    (r.x2 - r.x1) >= min_size \/ (r.y2 - r.y1) >= min_size

\* valid that asks for more than min_size
valid_strict(r, min_size) ==
    (r.x2 - r.x1) > min_size /\ (r.y2 - r.y1) > min_size

valid(r, min_size) ==
    (r.x2 - r.x1) >= min_size /\ (r.y2 - r.y1) >= min_size

\* ------------------------------------------------------------------------
\* smoothing.py: EMASmoother
\* ------------------------------------------------------------------------

\* the weights the other way round: p * alpha + n * (1 - alpha)
EMAValue_swapped(alpha, p, n) ==
    FloatAdd(FloatMulInt(p, alpha),
             FloatMulInt(n, FloatSub(FloatOfInt(1), alpha)))

\* the float p * (1 - alpha) + n * alpha of EMASmoother.update
EMAValue(alpha, p, n) ==
    FloatAdd(FloatMulInt(p, FloatSub(FloatOfInt(1), alpha)),
             FloatMulInt(n, alpha))

\* one axis of EMASmoother.update: int(p * (1 - alpha) + n * alpha)
EMAAxis(alpha, p, n) == IntOfFloat(EMAValue(alpha, p, n))

\* EMASmoother.__init__ for an alpha in [0,1]: a smoother is its alpha (a
\* float) and its _prev
EMASmoother(alpha) == [alpha |-> alpha, prev |-> None]

\* the exception EMASmoother.__init__ raises
ValueError == "ValueError"

\* a constructor that rejects the ends of the interval: 0.0 < alpha < 1.0
EMASmoother_init_open(alpha) ==
    IF ~(~FloatLeq(alpha, FloatOfInt(0)) /\ ~FloatLeq(FloatOfInt(1), alpha))
    THEN [exc |-> Some(ValueError), obj |-> None]
    ELSE [exc |-> None, obj |-> Some(EMASmoother(alpha))]

\* EMASmoother.__init__ for any float alpha: the exception raised, or the
\* smoother built
EMASmoother_init(alpha) ==
    IF ~(FloatLeq(FloatOfInt(0), alpha) /\ FloatLeq(alpha, FloatOfInt(1)))
    THEN [exc |-> Some(ValueError), obj |-> None]
    ELSE [exc |-> None, obj |-> Some(EMASmoother(alpha))]

\* update that does not remember the first point
EMASmoother_update_unset(sm, new_p) ==
    IF sm.prev = None
    THEN [sm |-> sm, ret |-> new_p]
    ELSE LET sx == EMAAxis(sm.alpha, sm.prev[1].x, new_p.x)
             sy == EMAAxis(sm.alpha, sm.prev[1].y, new_p.y)
             s  == Point(sx, sy)
         IN  [sm |-> [sm EXCEPT !.prev = Some(s)], ret |-> s]

\* update that remembers the raw point instead of the smoothed one
EMASmoother_update_raw(sm, new_p) ==
    IF sm.prev = None
    THEN [sm |-> [sm EXCEPT !.prev = Some(new_p)], ret |-> new_p]
    ELSE LET sx == EMAAxis(sm.alpha, sm.prev[1].x, new_p.x)
             sy == EMAAxis(sm.alpha, sm.prev[1].y, new_p.y)
         IN  [sm |-> [sm EXCEPT !.prev = Some(new_p)], ret |-> Point(sx, sy)]

\* update that returns the point it remembered before the call
EMASmoother_update_stale(sm, new_p) ==
    IF sm.prev = None
    THEN [sm |-> [sm EXCEPT !.prev = Some(new_p)], ret |-> new_p]
    ELSE LET sx == EMAAxis(sm.alpha, sm.prev[1].x, new_p.x)
             sy == EMAAxis(sm.alpha, sm.prev[1].y, new_p.y)
         IN  [sm |-> [sm EXCEPT !.prev = Some(Point(sx, sy))],
              ret |-> sm.prev[1]]

\* EMASmoother.update: the smoother after the call and the point returned
EMASmoother_update(sm, new_p) ==
    IF sm.prev = None
    THEN [sm |-> [sm EXCEPT !.prev = Some(new_p)], ret |-> new_p]
    ELSE LET px == sm.prev[1].x
             py == sm.prev[1].y
             nx == new_p.x
             ny == new_p.y
             sx == EMAAxis(sm.alpha, px, nx)
             sy == EMAAxis(sm.alpha, py, ny)
             s  == Point(sx, sy)
         IN  [sm |-> [sm EXCEPT !.prev = Some(s)], ret |-> s]

\* EMASmoother.reset
EMASmoother_reset(sm) == [sm EXCEPT !.prev = None]

\* ------------------------------------------------------------------------
\* rectangle_controller.py: RectangleController
\* ------------------------------------------------------------------------

\* config.py: Config, its two fields the controller reads; smooth_alpha is a
\* float
Config(smooth_alpha, min_rect_size) ==
    [smooth_alpha |-> smooth_alpha, min_rect_size |-> min_rect_size]

\* RectangleController.__init__
RectangleController(c) ==
    [cfg       |-> c,
     smooth1   |-> EMASmoother(c.smooth_alpha),
     smooth2   |-> EMASmoother(c.smooth_alpha),
     last_rect |-> None]

\* RectangleController.__init__ for any Config: the exception raised, or the
\* controller built; the two smoothers are built one after the other and an
\* exception of either leaves the constructor
RectangleController_init(c) ==
    LET s1 == EMASmoother_init(c.smooth_alpha)
        s2 == EMASmoother_init(c.smooth_alpha)
    IN  IF s1.exc # None THEN [exc |-> s1.exc, obj |-> None]
        ELSE IF s2.exc # None THEN [exc |-> s2.exc, obj |-> None]
        ELSE [exc |-> None,
              obj |-> Some([cfg       |-> c,
                            smooth1   |-> s1.obj[1],
                            smooth2   |-> s2.obj[1],
                            last_rect |-> None])]

\* reset that forgets the second smoother
RectangleController_reset_first(rc) ==
    [rc EXCEPT !.smooth1   = EMASmoother_reset(rc.smooth1),
               !.last_rect = None]

\* reset that forgets the points and keeps the rectangle
RectangleController_reset_points(rc) ==
    [rc EXCEPT !.smooth1 = EMASmoother_reset(rc.smooth1),
               !.smooth2 = EMASmoother_reset(rc.smooth2)]

\* RectangleController.reset
RectangleController_reset(rc) ==
    [rc EXCEPT !.smooth1   = EMASmoother_reset(rc.smooth1),
               !.smooth2   = EMASmoother_reset(rc.smooth2),
               !.last_rect = None]

\* update that returns only the rectangle of the current frame
RectangleController_update_current(rc, tips, w, h) ==
    IF Len(tips) >= 2
    THEN LET u1   == EMASmoother_update(rc.smooth1, tips[1])
             u2   == EMASmoother_update(rc.smooth2, tips[2])
             p1   == u1.ret
             p2   == u2.ret
             rect == clamp(ordered(Rect(p1.x, p1.y, p2.x, p2.y)), w, h)
             last == IF valid(rect, rc.cfg.min_rect_size)
                     THEN Some(rect) ELSE rc.last_rect
         IN  [rc  |-> [rc EXCEPT !.smooth1 = u1.sm, !.smooth2 = u2.sm,
                                  !.last_rect = last],
              ret |-> last, exc |-> None]
    ELSE [rc |-> rc, ret |-> None, exc |-> None]

\* update that drops the stored rectangle when the new one is not valid
RectangleController_update_drop(rc, tips, w, h) ==
    IF Len(tips) >= 2
    THEN LET u1   == EMASmoother_update(rc.smooth1, tips[1])
             u2   == EMASmoother_update(rc.smooth2, tips[2])
             p1   == u1.ret
             p2   == u2.ret
             rect == clamp(ordered(Rect(p1.x, p1.y, p2.x, p2.y)), w, h)
             last == IF valid(rect, rc.cfg.min_rect_size)
                     THEN Some(rect) ELSE None
         IN  [rc  |-> [rc EXCEPT !.smooth1 = u1.sm, !.smooth2 = u2.sm,
                                  !.last_rect = last],
              ret |-> last, exc |-> None]
    ELSE [rc |-> rc, ret |-> rc.last_rect, exc |-> None]

\* update that refuses a frame without pixels
RectangleController_update_strict(rc, tips, w, h) ==
    IF w <= 0 \/ h <= 0
    THEN [rc |-> rc, ret |-> None, exc |-> Some(ValueError)]
    ELSE IF Len(tips) >= 2
    THEN LET u1   == EMASmoother_update(rc.smooth1, tips[1])
             u2   == EMASmoother_update(rc.smooth2, tips[2])
             p1   == u1.ret
             p2   == u2.ret
             rect == clamp(ordered(Rect(p1.x, p1.y, p2.x, p2.y)), w, h)
             last == IF valid(rect, rc.cfg.min_rect_size)
                     THEN Some(rect) ELSE rc.last_rect
         IN  [rc  |-> [rc EXCEPT !.smooth1 = u1.sm, !.smooth2 = u2.sm,
                                  !.last_rect = last],
              ret |-> last, exc |-> None]
    ELSE [rc |-> rc, ret |-> rc.last_rect, exc |-> None]

\* update that does not clamp the rectangle to the frame
RectangleController_update_unclamped(rc, tips, w, h) ==
    IF Len(tips) >= 2
    THEN LET u1   == EMASmoother_update(rc.smooth1, tips[1])
             u2   == EMASmoother_update(rc.smooth2, tips[2])
             p1   == u1.ret
             p2   == u2.ret
             rect == ordered(Rect(p1.x, p1.y, p2.x, p2.y))
             last == IF valid(rect, rc.cfg.min_rect_size)
                     THEN Some(rect) ELSE rc.last_rect
         IN  [rc  |-> [rc EXCEPT !.smooth1 = u1.sm, !.smooth2 = u2.sm,
                                  !.last_rect = last],
              ret |-> last, exc |-> None]
    ELSE [rc |-> rc, ret |-> rc.last_rect, exc |-> None]

\* update that feeds a single point to the first smoother
RectangleController_update_single(rc, tips, w, h) ==
    IF Len(tips) >= 2
    THEN LET u1   == EMASmoother_update(rc.smooth1, tips[1])
             u2   == EMASmoother_update(rc.smooth2, tips[2])
             p1   == u1.ret
             p2   == u2.ret
             rect == clamp(ordered(Rect(p1.x, p1.y, p2.x, p2.y)), w, h)
             last == IF valid(rect, rc.cfg.min_rect_size)
                     THEN Some(rect) ELSE rc.last_rect
         IN  [rc  |-> [rc EXCEPT !.smooth1 = u1.sm, !.smooth2 = u2.sm,
                                  !.last_rect = last],
              ret |-> last, exc |-> None]
    ELSE IF Len(tips) = 1
    THEN [rc  |-> [rc EXCEPT
                     !.smooth1 = EMASmoother_update(rc.smooth1, tips[1]).sm],
          ret |-> rc.last_rect, exc |-> None]
    ELSE [rc |-> rc, ret |-> rc.last_rect, exc |-> None]

\* update that lets the smoothers remember only the points of a rectangle
\* it stores
RectangleController_update_rollback(rc, tips, w, h) ==
    IF Len(tips) >= 2
    THEN LET u1   == EMASmoother_update(rc.smooth1, tips[1])
             u2   == EMASmoother_update(rc.smooth2, tips[2])
             p1   == u1.ret
             p2   == u2.ret
             rect == clamp(ordered(Rect(p1.x, p1.y, p2.x, p2.y)), w, h)
         IN  IF valid(rect, rc.cfg.min_rect_size)
             THEN [rc  |-> [rc EXCEPT !.smooth1 = u1.sm, !.smooth2 = u2.sm,
                                      !.last_rect = Some(rect)],
                   ret |-> Some(rect), exc |-> None]
             ELSE [rc |-> rc, ret |-> rc.last_rect, exc |-> None]
    ELSE [rc |-> rc, ret |-> rc.last_rect, exc |-> None]

\* RectangleController.update: the controller after the call, the value
\* returned and the exception raised; no statement of the method or of the
\* methods it calls raises
RectangleController_update(rc, tips, w, h) ==
    IF Len(tips) >= 2
    THEN LET u1   == EMASmoother_update(rc.smooth1, tips[1])
             u2   == EMASmoother_update(rc.smooth2, tips[2])
             p1   == u1.ret
             p2   == u2.ret
             rect == clamp(ordered(Rect(p1.x, p1.y, p2.x, p2.y)), w, h)
             last == IF valid(rect, rc.cfg.min_rect_size)
                     THEN Some(rect) ELSE rc.last_rect
         IN  [rc  |-> [rc EXCEPT !.smooth1 = u1.sm, !.smooth2 = u2.sm,
                                  !.last_rect = last],
              ret |-> last, exc |-> None]
    ELSE [rc |-> rc, ret |-> rc.last_rect, exc |-> None]

\* the w, h of the update call that stored the rectangle the controller
\* holds after an update with tips, w, h: those of this call when it stored
\* its rectangle (if rect.valid(...): self._last_rect = rect), else those
\* of the call that did, acc
AcceptedIn(acc, after, tips, w, h) ==
    IF Len(tips) >= 2 /\ after.smooth1.prev # None /\ after.smooth2.prev # None
    THEN LET p1   == after.smooth1.prev[1]
             p2   == after.smooth2.prev[1]
             rect == clamp(ordered(Rect(p1.x, p1.y, p2.x, p2.y)), w, h)
         IN  IF valid(rect, after.cfg.min_rect_size)
             THEN Some(<<w, h>>) ELSE acc
    ELSE acc

\* ------------------------------------------------------------------------
\* main.py: Rect, EMASmoother and RectangleController of the single file.
\* Its Point and Rect are dataclasses with the fields of the package's, and
\* its float arithmetic is Python's
\* ------------------------------------------------------------------------

\* main.py, Rect.ordered
main_ordered(r) ==
    LET a == Sorted2(r.x1, r.x2)
        b == Sorted2(r.y1, r.y2)
    IN  Rect(a[1], b[1], a[2], b[2])

\* clamp of main.py that lets x = w and y = h through
main_clamp_inclusive(r, w, h) ==
    LET x1 == Max(0, Min(r.x1, w))
        x2 == Max(0, Min(r.x2, w))
        y1 == Max(0, Min(r.y1, h))
        y2 == Max(0, Min(r.y2, h))
    IN  main_ordered(Rect(x1, y1, x2, y2))

\* main.py, Rect.clamp
main_clamp(r, w, h) ==
    LET x1 == Max(0, Min(r.x1, w - 1))
        x2 == Max(0, Min(r.x2, w - 1))
        y1 == Max(0, Min(r.y1, h - 1))
        y2 == Max(0, Min(r.y2, h - 1))
    IN  main_ordered(Rect(x1, y1, x2, y2))

\* main.py, Rect.valid
main_valid(r, min_size) ==
    (r.x2 - r.x1) >= min_size /\ (r.y2 - r.y1) >= min_size

\* main.py, EMASmoother.__init__ past its check of alpha
main_EMASmoother(alpha) == [alpha |-> alpha, prev |-> None]

\* main.py, EMASmoother.__init__ for any float alpha: the exception raised,
\* or the smoother built
main_EMASmoother_init(alpha) ==
    IF ~(FloatLeq(FloatOfInt(0), alpha) /\ FloatLeq(alpha, FloatOfInt(1)))
    THEN [exc |-> Some(ValueError), obj |-> None]
    ELSE [exc |-> None, obj |-> Some(main_EMASmoother(alpha))]

\* main.py, EMASmoother.update: the smoother after the call and the point
\* returned
main_EMASmoother_update(sm, new_p) ==
    IF sm.prev = None
    THEN [sm |-> [sm EXCEPT !.prev = Some(new_p)], ret |-> new_p]
    ELSE LET px == sm.prev[1].x
             py == sm.prev[1].y
             nx == new_p.x
             ny == new_p.y
             sx == IntOfFloat(FloatAdd(
                       FloatMulInt(px, FloatSub(FloatOfInt(1), sm.alpha)),
                       FloatMulInt(nx, sm.alpha)))
             sy == IntOfFloat(FloatAdd(
                       FloatMulInt(py, FloatSub(FloatOfInt(1), sm.alpha)),
                       FloatMulInt(ny, sm.alpha)))
             s  == Point(sx, sy)
         IN  [sm |-> [sm EXCEPT !.prev = Some(s)], ret |-> s]

\* main.py, EMASmoother.reset
main_EMASmoother_reset(sm) == [sm EXCEPT !.prev = None]

\* main.py, RectangleController.__init__: the exception raised, or the
\* controller built
main_RectangleController_init(c) ==
    LET s1 == main_EMASmoother_init(c.smooth_alpha)
        s2 == main_EMASmoother_init(c.smooth_alpha)
    IN  IF s1.exc # None THEN [exc |-> s1.exc, obj |-> None]
        ELSE IF s2.exc # None THEN [exc |-> s2.exc, obj |-> None]
        ELSE [exc |-> None,
              obj |-> Some([cfg       |-> c,
                            smooth1   |-> s1.obj[1],
                            smooth2   |-> s2.obj[1],
                            last_rect |-> None])]

\* main.py, RectangleController.reset
main_RectangleController_reset(mc) ==
    [mc EXCEPT !.smooth1   = main_EMASmoother_reset(mc.smooth1),
               !.smooth2   = main_EMASmoother_reset(mc.smooth2),
               !.last_rect = None]

\* main.py, RectangleController.update: the controller after the call, the
\* value returned and the exception raised
main_RectangleController_update(mc, tips, w, h) ==
    IF Len(tips) >= 2
    THEN LET u1   == main_EMASmoother_update(mc.smooth1, tips[1])
             u2   == main_EMASmoother_update(mc.smooth2, tips[2])
             p1   == u1.ret
             p2   == u2.ret
             rect == main_clamp(main_ordered(Rect(p1.x, p1.y, p2.x, p2.y)),
                                w, h)
             last == IF main_valid(rect, mc.cfg.min_rect_size)
                     THEN Some(rect) ELSE mc.last_rect
         IN  [rc  |-> [mc EXCEPT !.smooth1 = u1.sm, !.smooth2 = u2.sm,
                                  !.last_rect = last],
              ret |-> last, exc |-> None]
    ELSE [rc |-> mc, ret |-> mc.last_rect, exc |-> None]

\* ------------------------------------------------------------------------
\* app.py and main.py: InverterApp
\* ------------------------------------------------------------------------

\* ord("q")
OrdQ == 113

\* ord("r")
OrdR == 114

\* cv2.waitKey(1) & 0xFF when no key was pressed: -1 & 0xFF
NoKey == 255

\* InverterApp.compute_rect: shape is (H, W, C)
compute_rect(ctrl, tips, shape) ==
    LET h == shape[1]
        w == shape[2]
    IN  RectangleController_update(ctrl, tips, w, h)

\* handle_key_or_close that does not know the R key
handle_key_or_close_noreset(ctrl, key, visible) ==
    IF key = OrdQ THEN [rc |-> ctrl, cont |-> FALSE]
    ELSE IF visible < 1 THEN [rc |-> ctrl, cont |-> FALSE]
    ELSE [rc |-> ctrl, cont |-> TRUE]

\* app.py, InverterApp.handle_key_or_close, for the key cv2.waitKey(1) & 0xFF
\* gave and the value of WND_PROP_VISIBLE: the controller after the call
\* and the value returned (True to go on)
handle_key_or_close(ctrl, key, visible) ==
    IF key = OrdQ THEN [rc |-> ctrl, cont |-> FALSE]
    ELSE LET c == IF key = OrdR THEN RectangleController_reset(ctrl) ELSE ctrl
         IN  IF visible < 1 THEN [rc |-> c, cont |-> FALSE]
             ELSE [rc |-> c, cont |-> TRUE]

\* main.py, InverterApp.handle_key: the controller after the call and the
\* value returned (True to go on)
handle_key(ctrl, key) ==
    IF key = OrdQ THEN [rc |-> ctrl, cont |-> FALSE]
    ELSE LET c == IF key = OrdR THEN RectangleController_reset(ctrl) ELSE ctrl
         IN  [rc |-> c, cont |-> TRUE]

\* ------------------------------------------------------------------------
\* Inputs
\* ------------------------------------------------------------------------

\* the smoothing factors the controller is built with, as decimal literals
\* num/den: 0, 0.4 (the default of Config) and 1
CtrlAlphas == {<<0, 1>>, <<2, 5>>, <<1, 1>>}

\* the minimum rectangle sizes the controller is built with
MinRectSizes == {3}

\* the pairs of points the detector reports for the two index fingers: a
\* wide pair, the same pair in the other order, a pair too close for
\* min_rect_size, and a pair that lies outside the frame on both axes
TipPairs ==
    {<<Point(0, 0), Point(5, 4)>>,
     <<Point(5, 4), Point(0, 0)>>,
     <<Point(0, 0), Point(2, 2)>>,
     <<Point(-1, -2), Point(6, 5)>>}

\* the points the detector reports when it sees one hand
SingleTips == {Point(0, 0), Point(5, 4)}

\* the point the detector reports past the second one
ExtraTip == Point(5, 4)

\* the longest list of points the detector reports
MaxTips == 3

\* the lists of points the detector reports: none, one, a pair, or a pair
\* followed by further points
TipLists ==
    {<<>>} \cup {<<p>> : p \in SingleTips} \cup TipPairs
    \cup {t \o [i \in 1..(k - 2) |-> ExtraTip] : t \in TipPairs, k \in 3..MaxTips}

\* the frame sizes <<w, h>>
Frames == {<<640, 480>>, <<4, 4>>}

\* the smoothing factors a controller is constructed with, valid or not, as
\* decimal literals num/den: -0.01, 0.0, 0.4, 1.0 and 1.01
CtorAlphas == {<<-1, 100>>, <<0, 1>>, <<2, 5>>, <<1, 1>>, <<101, 100>>}

\* the minimum rectangle sizes a controller is constructed with, valid or not
CtorMinSizes == {-1, 3}

\* point lists of any kind: none, one point outside the frame, a pair inside
\* it, a pair outside it with negative coordinates
AnyTipLists ==
    {<<>>,
     <<Point(9, -3)>>,
     <<Point(0, 0), Point(5, 4)>>,
     <<Point(-2, 5), Point(6, -1)>>}

\* frame sizes <<w, h>> of any kind: with pixels, and without
AnyFrames == {<<8, 6>>, <<0, -1>>}

\* the scenario: the point lists of three frames in a row, two pairs and
\* then no point
Scenario ==
    <<<<Point(100, 100), Point(200, 200)>>,
      <<Point(140, 100), Point(200, 160)>>,
      <<>>>>

\* the point lists the controller of the scenario is given, in any order
ScenarioLists == {Scenario[i] : i \in 1..Len(Scenario)}

\* the frame size <<w, h>> of the scenario
ScenarioFrame == <<640, 480>>

\* the configuration of the scenario: alpha = 0.4, min_rect_size = 3
ScenarioConfig == Config(FloatOfRatio(2, 5), 3)

\* the two InverterApp classes: the package (app.py) and main.py
AppImpls == {"package", "main"}

\* the point lists the tracker reports to the app
AppTipLists ==
    {<<>>,
     <<Point(0, 0)>>,
     <<Point(0, 0), Point(5, 4)>>,
     <<Point(5, 4), Point(0, 0)>>}

\* frame.shape of the frames the camera gives: (H, W, C)
AppShape == <<480, 640, 3>>

\* the keys cv2.waitKey(1) & 0xFF reports: q, r, none, Q
AppKeys == {OrdQ, OrdR, NoKey, 81}

\* the values of WND_PROP_VISIBLE: shown, hidden or closed, no such window
AppVisible == {1, 0, -1}

\* the smoothing factors the two controllers are built with, as decimal
\* literals num/den: -0.01, 0.3 and 0.4 (the default)
EquivAlphas == {<<-1, 100>>, <<3, 10>>, <<2, 5>>}

\* the minimum rectangle size the two controllers are built with (the
\* default)
EquivMinSizes == {3}

\* the point lists the two controllers are given: none, one point, a wide
\* pair with its corners out of order, a pair too close, a pair outside the
\* frame
EquivTipLists ==
    {<<>>,
     <<Point(9, -3)>>,
     <<Point(5, 0), Point(0, 4)>>,
     <<Point(3, 3), Point(4, 5)>>,
     <<Point(-2, 5), Point(6, -1)>>}

\* the frame sizes <<w, h>> the two controllers are given
EquivFrames == {<<8, 6>>, <<4, 4>>}

\* the coordinates of a Rect on its own
GeoCoords == {-2, 0, 1, 3, 5}

\* the rectangles a Rect on its own starts as: corners in any order
GeoRects ==
    {Rect(x1, y1, x2, y2) : x1 \in GeoCoords, y1 \in GeoCoords,
                            x2 \in GeoCoords, y2 \in GeoCoords}

\* the frame sizes <<w, h>> a Rect on its own is clamped to
GeoFrames == {<<4, 4>>, <<1, 1>>, <<2, 6>>, <<0, 3>>}

\* the minimum sizes a Rect on its own is tested against
GeoMinSizes == {0, 3}

\* the smoothing factors of the smoother on its own
SmAlphas == {<<0, 1>>, <<3, 10>>, <<2, 5>>, <<1, 2>>, <<1, 1>>}

\* the points the smoother on its own is fed
SmPoints == {Point(0, 0), Point(10, -7), Point(3, 3), Point(-6, 8)}

\* ------------------------------------------------------------------------
\* State
\* ------------------------------------------------------------------------

VARIABLES
    rc,        \* the RectangleController: cfg, smooth1, smooth2, last_rect
    op,        \* the last call on rc: "init", "update" or "reset"
    args,      \* the arguments of that call: tips, w, h
    ret,       \* what that call returned
    before,    \* rc.last_rect as it was when that call began
    exc,       \* the exception that call raised, None when it returned
    conf,      \* the Config the constructor of rc was given
    script,    \* how many frames of the scenario the calls on rc have
               \* followed since its construction or reset, -1 when they
               \* left it
    accepted,  \* the w, h of the update call that stored rc.last_rect, None
               \* while rc holds no rectangle
    main_rc,   \* the RectangleController of main.py given the calls of rc
    main_ret,  \* what the last call on main_rc returned
    main_exc,  \* the exception that call raised, None when it returned
    geo,       \* a Rect on its own and the last method called on it
    app,       \* an InverterApp in run(): where it is, what the frame gave
    sm,        \* an EMASmoother on its own: alpha, prev
    sm_op,     \* the last call on sm: "init", "update" or "reset"
    sm_arg,    \* the point of that call, if it was an update
    sm_ret,    \* the point that call returned, if it was an update
    sm_before, \* sm.prev as it was when that call began
    sm_first,  \* the first point sm was fed since construction or reset
    sm_phase   \* what sm was fed since construction or reset: nothing
               \* ("fresh"), one point ("initialized"), then the same point
               \* again and again ("constant"), or different ones ("mixed")

rcvars == <<rc, op, args, ret, before>>

ctvars == <<exc, conf, script>>

mainvars == <<main_rc, main_ret, main_exc>>

smvars == <<sm, sm_op, sm_arg, sm_ret, sm_before, sm_first, sm_phase>>

vars == <<rc, op, args, ret, before, exc, conf, script, accepted,
          main_rc, main_ret, main_exc, geo, app,
          sm, sm_op, sm_arg, sm_ret, sm_before, sm_first, sm_phase>>

NoArgs == [tips |-> <<>>, w |-> 0, h |-> 0]

\* the calls on rc follow no scenario
NoScript == -1

\* no Rect on its own
GeoIdle ==
    geo = [op |-> "init", rect |-> Rect(0, 0, 0, 0), w |-> 0, h |-> 0,
           min_size |-> 0, out |-> Rect(0, 0, 0, 0), ok |-> FALSE]

\* no InverterApp
AppIdle == app = [pc |-> "idle"]

\* the value of main_rc while there is no controller of main.py
NoMainController ==
    main_RectangleController_init(Config(FloatOfInt(0), 0)).obj[1]

\* no controller of main.py
MainIdle ==
    /\ main_rc = NoMainController
    /\ main_ret = None
    /\ main_exc = None

\* the fields of app that describe the frame in hand, before it is processed
NoFrame ==
    [tips |-> <<>>, rect |-> None, inverted |-> FALSE, drawn |-> FALSE,
     shown |-> FALSE]

\* ------------------------------------------------------------------------
\* The controller, driven as InverterApp drives it
\* ------------------------------------------------------------------------

\* rect_ctrl = RectangleController(cfg)
RcInit ==
    /\ \E a \in CtrlAlphas, m \in MinRectSizes :
          rc = RectangleController(Config(FloatOfRatio(a[1], a[2]), m))
    /\ op = "init"
    /\ args = NoArgs
    /\ ret = None
    /\ before = None
    /\ exc = None
    /\ conf = rc.cfg
    /\ script = NoScript
    /\ accepted = None
    /\ MainIdle

\* no smoother on its own
SmIdle ==
    /\ sm = EMASmoother(FloatOfInt(0))
    /\ sm_op = "init"
    /\ sm_arg = None
    /\ sm_ret = None
    /\ sm_before = None
    /\ sm_first = None
    /\ sm_phase = "fresh"

Init == RcInit /\ SmIdle /\ GeoIdle /\ AppIdle

\* rect_ctrl.update(tips, w, h)
Update ==
    \E tips \in TipLists, f \in Frames :
        LET u == RectangleController_update(rc, tips, f[1], f[2])
        IN  /\ rc' = u.rc
            /\ ret' = u.ret
            /\ before' = rc.last_rect
            /\ op' = "update"
            /\ args' = [tips |-> tips, w |-> f[1], h |-> f[2]]
            /\ exc' = u.exc
            /\ accepted' = AcceptedIn(accepted, u.rc, tips, f[1], f[2])
            /\ UNCHANGED <<conf, script, geo, app, smvars, mainvars>>

\* rect_ctrl.reset()
Reset ==
    /\ rc' = RectangleController_reset(rc)
    /\ ret' = None
    /\ before' = rc.last_rect
    /\ op' = "reset"
    /\ args' = NoArgs
    /\ exc' = None
    /\ accepted' = None
    /\ UNCHANGED <<conf, script, geo, app, smvars, mainvars>>

Next == Update \/ Reset

Spec == Init /\ [][Next]_vars

\* ------------------------------------------------------------------------
\* A smoother on its own
\* ------------------------------------------------------------------------

\* the value of rc while there is no controller
NoController == RectangleController(Config(FloatOfInt(0), 0))

\* no controller
RcIdle ==
    /\ rc = NoController
    /\ op = "init"
    /\ args = NoArgs
    /\ ret = None
    /\ before = None
    /\ exc = None
    /\ conf = rc.cfg
    /\ script = NoScript
    /\ accepted = None
    /\ MainIdle

\* sm = EMASmoother(alpha)
SmInit ==
    /\ RcIdle
    /\ GeoIdle
    /\ AppIdle
    /\ \E a \in SmAlphas : sm = EMASmoother(FloatOfRatio(a[1], a[2]))
    /\ sm_op = "init"
    /\ sm_arg = None
    /\ sm_ret = None
    /\ sm_before = None
    /\ sm_first = None
    /\ sm_phase = "fresh"

\* sm.update(new_p)
SmUpdate ==
    \E new_p \in SmPoints :
        LET u == EMASmoother_update(sm, new_p)
        IN  /\ sm' = u.sm
            /\ sm_ret' = Some(u.ret)
            /\ sm_before' = sm.prev
            /\ sm_op' = "update"
            /\ sm_arg' = Some(new_p)
            /\ sm_first' = IF sm_phase = "fresh" THEN Some(new_p) ELSE sm_first
            /\ sm_phase' = CASE sm_phase = "fresh" -> "initialized"
                             [] sm_phase = "initialized" -> "constant"
                             [] sm_phase = "constant" ->
                                  IF sm_arg = Some(new_p) THEN "constant"
                                  ELSE "mixed"
                             [] OTHER -> "mixed"
            /\ UNCHANGED <<rcvars, ctvars, geo, app, accepted, mainvars>>

\* sm.reset()
SmReset ==
    /\ sm' = EMASmoother_reset(sm)
    /\ sm_ret' = None
    /\ sm_before' = sm.prev
    /\ sm_op' = "reset"
    /\ sm_arg' = None
    /\ sm_first' = None
    /\ sm_phase' = "fresh"
    /\ UNCHANGED <<rcvars, ctvars, geo, app, accepted, mainvars>>

SmNext == SmUpdate \/ SmReset

SmSpec == SmInit /\ [][SmNext]_vars

\* ------------------------------------------------------------------------
\* The controller of the scenario: alpha = 0.4, min_rect_size = 3, frames of
\* 640x480, given the point lists of the scenario in any order
\* ------------------------------------------------------------------------

\* rect_ctrl = RectangleController(Config(smooth_alpha=0.4, min_rect_size=3))
ScenarioInit ==
    /\ rc = RectangleController_init(ScenarioConfig).obj[1]
    /\ op = "init"
    /\ args = NoArgs
    /\ ret = None
    /\ before = None
    /\ exc = None
    /\ conf = ScenarioConfig
    /\ script = 0
    /\ accepted = None
    /\ MainIdle
    /\ SmIdle
    /\ GeoIdle
    /\ AppIdle

\* rect_ctrl.update(tips, 640, 480)
ScenarioUpdate ==
    /\ \E tips \in ScenarioLists :
          LET u == RectangleController_update(rc, tips, ScenarioFrame[1],
                                              ScenarioFrame[2])
          IN  /\ rc' = u.rc
              /\ ret' = u.ret
              /\ exc' = u.exc
              /\ before' = rc.last_rect
              /\ op' = "update"
              /\ args' = [tips |-> tips, w |-> ScenarioFrame[1],
                          h |-> ScenarioFrame[2]]
              /\ script' = IF /\ script >= 0
                              /\ script < Len(Scenario)
                              /\ tips = Scenario[script + 1]
                           THEN script + 1
                           ELSE NoScript
              /\ accepted' = AcceptedIn(accepted, u.rc, tips,
                                        ScenarioFrame[1], ScenarioFrame[2])
    /\ UNCHANGED <<conf, geo, app, smvars, mainvars>>

\* rect_ctrl.reset()
ScenarioReset ==
    /\ rc' = RectangleController_reset(rc)
    /\ ret' = None
    /\ exc' = None
    /\ before' = rc.last_rect
    /\ op' = "reset"
    /\ args' = NoArgs
    /\ script' = 0
    /\ accepted' = None
    /\ UNCHANGED <<conf, geo, app, smvars, mainvars>>

ScenarioNext == ScenarioUpdate \/ ScenarioReset

ScenarioSpec == ScenarioInit /\ [][ScenarioNext]_vars

\* ------------------------------------------------------------------------
\* InverterApp.run(): app.pc is the next step of run(), app.last the step
\* taken last; the frame rate estimate (update_fps) plays no part and is left
\* out
\* ------------------------------------------------------------------------

\* app = InverterApp(Config()); app.run() enters its loop
RunInit ==
    /\ rc = RectangleController_init(ScenarioConfig).obj[1]
    /\ op = "init"
    /\ args = NoArgs
    /\ ret = None
    /\ before = None
    /\ exc = None
    /\ conf = ScenarioConfig
    /\ script = NoScript
    /\ accepted = None
    /\ MainIdle
    /\ SmIdle
    /\ GeoIdle
    /\ \E impl \in AppImpls :
          app = [impl |-> impl, pc |-> "read", last |-> "init", ok |-> TRUE,
                 frame |-> NoFrame, key |-> NoKey, visible |-> 1,
                 raised |-> FALSE, released |-> FALSE,
                 tracker_closed |-> FALSE, windows_destroyed |-> FALSE]

\* frame = self.read_frame(); if frame is None: break
ReadFrame ==
    /\ app.pc = "read"
    /\ \E ok \in BOOLEAN :
          app' = [app EXCEPT !.last = "read", !.ok = ok, !.frame = NoFrame,
                             !.pc = IF ok THEN "frame" ELSE "close"]
    /\ UNCHANGED <<rcvars, ctvars, geo, smvars, accepted, mainvars>>

\* tips = self.detect_tips(frame) raises: the loop is left for the finally
\* clause
DetectFails ==
    /\ app.pc = "frame"
    /\ app' = [app EXCEPT !.last = "frame", !.raised = TRUE, !.pc = "close"]
    /\ UNCHANGED <<rcvars, ctvars, geo, smvars, accepted, mainvars>>

\* detect_tips, compute_rect, apply_effects, update_fps, draw_overlays, show;
\* an exception in show leaves the loop for the finally clause
ProcessFrame ==
    /\ app.pc = "frame"
    /\ \E tips \in AppTipLists, shown \in BOOLEAN :
          LET u == compute_rect(rc, tips, AppShape)
          IN  /\ rc' = u.rc
              /\ ret' = u.ret
              /\ exc' = u.exc
              /\ before' = rc.last_rect
              /\ op' = "update"
              /\ args' = [tips |-> tips, w |-> AppShape[2], h |-> AppShape[1]]
              /\ accepted' = AcceptedIn(accepted, u.rc, tips,
                                        AppShape[2], AppShape[1])
              /\ app' = [app EXCEPT
                           !.last = "frame",
                           !.frame = [tips     |-> tips,
                                      rect     |-> ret',
                                      inverted |-> ret' # None,
                                      drawn    |-> ret' # None,
                                      shown    |-> shown],
                           !.raised = ~shown,
                           !.pc = IF shown THEN "key" ELSE "close"]
    /\ UNCHANGED <<conf, script, geo, smvars, mainvars>>

\* if not self.handle_key_or_close(): break (package);
\* if not self.handle_key(cv2.waitKey(1) & 0xFF): break (main.py)
HandleKey ==
    /\ app.pc = "key"
    /\ \E key \in AppKeys, visible \in AppVisible :
          LET k == IF app.impl = "package"
                   THEN handle_key_or_close(rc, key, visible)
                   ELSE handle_key(rc, key)
          IN  /\ rc' = k.rc
              /\ IF key # OrdQ /\ key = OrdR
                 THEN /\ op' = "reset"
                      /\ args' = NoArgs
                      /\ ret' = None
                      /\ exc' = None
                      /\ before' = rc.last_rect
                      /\ accepted' = None
                 ELSE UNCHANGED <<op, args, ret, exc, before, accepted>>
              /\ app' = [app EXCEPT !.last = "key", !.key = key,
                                    !.visible = visible,
                                    !.pc = IF k.cont THEN "read" ELSE "close"]
    /\ UNCHANGED <<conf, script, geo, smvars, mainvars>>

\* finally: self.close()
Close ==
    /\ app.pc = "close"
    /\ app' = [app EXCEPT !.last = "close", !.released = TRUE,
                          !.tracker_closed = TRUE,
                          !.windows_destroyed = TRUE, !.pc = "done"]
    /\ UNCHANGED <<rcvars, ctvars, geo, smvars, accepted, mainvars>>

RunNext == ReadFrame \/ DetectFails \/ ProcessFrame \/ HandleKey \/ Close

RunSpec == RunInit /\ [][RunNext]_vars

\* ------------------------------------------------------------------------
\* A Rect on its own: each method is called on the Rect the last one returned
\* ------------------------------------------------------------------------

\* r = Rect(x1, y1, x2, y2)
GeoInit ==
    /\ RcIdle
    /\ SmIdle
    /\ AppIdle
    /\ \E r \in GeoRects :
          geo = [op |-> "init", rect |-> r, w |-> 0, h |-> 0, min_size |-> 0,
                 out |-> r, ok |-> FALSE]

\* r = r.ordered()
GeoOrdered ==
    /\ geo' = [op |-> "ordered", rect |-> geo.out, w |-> 0, h |-> 0,
               min_size |-> 0, out |-> ordered(geo.out), ok |-> FALSE]
    /\ UNCHANGED <<rcvars, ctvars, app, smvars, accepted, mainvars>>

\* r = r.clamp(w, h)
GeoClamp ==
    /\ \E f \in GeoFrames :
          geo' = [op |-> "clamp", rect |-> geo.out, w |-> f[1], h |-> f[2],
                  min_size |-> 0, out |-> clamp(geo.out, f[1], f[2]),
                  ok |-> FALSE]
    /\ UNCHANGED <<rcvars, ctvars, app, smvars, accepted, mainvars>>

\* r.valid(min_size)
GeoValid ==
    /\ \E m \in GeoMinSizes :
          geo' = [op |-> "valid", rect |-> geo.out, w |-> 0, h |-> 0,
                  min_size |-> m, out |-> geo.out, ok |-> valid(geo.out, m)]
    /\ UNCHANGED <<rcvars, ctvars, app, smvars, accepted, mainvars>>

GeoNext == GeoOrdered \/ GeoClamp \/ GeoValid

GeoSpec == GeoInit /\ [][GeoNext]_vars

\* ------------------------------------------------------------------------
\* A controller from its construction on, given configurations, point
\* lists and frame sizes of any kind
\* ------------------------------------------------------------------------

\* before rect_ctrl = RectangleController(cfg), for a cfg of any kind
CtorInit ==
    /\ rc = NoController
    /\ op = "start"
    /\ args = NoArgs
    /\ ret = None
    /\ before = None
    /\ exc = None
    /\ \E a \in CtorAlphas, m \in CtorMinSizes :
          conf = Config(FloatOfLiteral(a[1], a[2]), m)
    /\ script = NoScript
    /\ accepted = None
    /\ MainIdle
    /\ SmIdle
    /\ GeoIdle
    /\ AppIdle

\* rect_ctrl = RectangleController(cfg)
Construct ==
    /\ op = "start"
    /\ LET c == RectangleController_init(conf)
       IN  /\ rc' = IF c.exc = None THEN c.obj[1] ELSE rc
           /\ exc' = c.exc
    /\ op' = "init"
    /\ UNCHANGED <<args, ret, before, conf, script, accepted, geo, app,
                   smvars, mainvars>>

\* rect_ctrl.update(tips, w, h) on a controller that was built, while no call
\* has raised
AnyUpdate ==
    /\ op # "start"
    /\ exc = None
    /\ \E tips \in AnyTipLists, f \in AnyFrames :
          LET u == RectangleController_update(rc, tips, f[1], f[2])
          IN  /\ rc' = u.rc
              /\ ret' = u.ret
              /\ exc' = u.exc
              /\ before' = rc.last_rect
              /\ op' = "update"
              /\ args' = [tips |-> tips, w |-> f[1], h |-> f[2]]
              /\ accepted' = AcceptedIn(accepted, u.rc, tips, f[1], f[2])
    /\ UNCHANGED <<conf, script, geo, app, smvars, mainvars>>

\* rect_ctrl.reset() on a controller that was built, while no call has raised
AnyReset ==
    /\ op # "start"
    /\ exc = None
    /\ rc' = RectangleController_reset(rc)
    /\ ret' = None
    /\ exc' = None
    /\ before' = rc.last_rect
    /\ op' = "reset"
    /\ args' = NoArgs
    /\ accepted' = None
    /\ UNCHANGED <<conf, script, geo, app, smvars, mainvars>>

CtorNext == Construct \/ AnyUpdate \/ AnyReset

CtorSpec == CtorInit /\ [][CtorNext]_vars

\* ------------------------------------------------------------------------
\* The RectangleController of the package (rc) and the one of main.py
\* (main_rc), built from one configuration and given the same calls
\* ------------------------------------------------------------------------

\* before the two constructors
EquivInit ==
    /\ rc = NoController
    /\ op = "start"
    /\ args = NoArgs
    /\ ret = None
    /\ before = None
    /\ exc = None
    /\ \E a \in EquivAlphas, m \in EquivMinSizes :
          conf = Config(FloatOfLiteral(a[1], a[2]), m)
    /\ script = NoScript
    /\ accepted = None
    /\ MainIdle
    /\ SmIdle
    /\ GeoIdle
    /\ AppIdle

\* RectangleController(cfg) of the package and of main.py
BothConstruct ==
    /\ op = "start"
    /\ LET c == RectangleController_init(conf)
           m == main_RectangleController_init(conf)
       IN  /\ rc' = IF c.exc = None THEN c.obj[1] ELSE rc
           /\ exc' = c.exc
           /\ main_rc' = IF m.exc = None THEN m.obj[1] ELSE main_rc
           /\ main_exc' = m.exc
    /\ op' = "init"
    /\ UNCHANGED <<args, ret, before, conf, script, accepted, main_ret, geo,
                   app, smvars>>

\* what update(tips, w, h) leaves behind, u being the outcome of the
\* package's method and m the outcome of main.py's
BothUpdated(u, m, tips, w, h) ==
    /\ rc' = u.rc
    /\ ret' = u.ret
    /\ exc' = u.exc
    /\ main_rc' = m.rc
    /\ main_ret' = m.ret
    /\ main_exc' = m.exc
    /\ before' = rc.last_rect
    /\ op' = "update"
    /\ args' = [tips |-> tips, w |-> w, h |-> h]
    /\ accepted' = AcceptedIn(accepted, rc', tips, w, h)

\* update(tips, w, h) on both controllers, once both were built
BothUpdate ==
    /\ op # "start"
    /\ exc = None
    /\ main_exc = None
    /\ \E tips \in EquivTipLists, f \in EquivFrames :
          BothUpdated(RectangleController_update(rc, tips, f[1], f[2]),
                      main_RectangleController_update(main_rc, tips,
                                                      f[1], f[2]),
                      tips, f[1], f[2])
    /\ UNCHANGED <<conf, script, geo, app, smvars>>

\* reset() on both controllers, once both were built
BothReset ==
    /\ op # "start"
    /\ exc = None
    /\ main_exc = None
    /\ rc' = RectangleController_reset(rc)
    /\ ret' = None
    /\ exc' = None
    /\ main_rc' = main_RectangleController_reset(main_rc)
    /\ main_ret' = None
    /\ main_exc' = None
    /\ before' = rc.last_rect
    /\ op' = "reset"
    /\ args' = NoArgs
    /\ accepted' = None
    /\ UNCHANGED <<conf, script, geo, app, smvars>>

EquivNext == BothConstruct \/ BothUpdate \/ BothReset

EquivSpec == EquivInit /\ [][EquivNext]_vars

\* ------------------------------------------------------------------------
\* Properties of the controller (under Spec)
\* ------------------------------------------------------------------------

\* v restricted to [0, hi]
ClampTo(v, hi) == IF v < 0 THEN 0 ELSE IF v > hi THEN hi ELSE v

\* the rectangle with opposite corners p1 and p2, normalized and restricted
\* to [0, w-1] x [0, h-1]
CornerRect(p1, p2, w, h) ==
    Rect(ClampTo(Min(p1.x, p2.x), w - 1), ClampTo(Min(p1.y, p2.y), h - 1),
         ClampTo(Max(p1.x, p2.x), w - 1), ClampTo(Max(p1.y, p2.y), h - 1))

\* r is at least m wide and m high
Accepts(r, m) == r.x2 - r.x1 >= m /\ r.y2 - r.y1 >= m

\* C1: an update with at least two points feeds tips[0] to smoother 1 and
\* tips[1] to smoother 2 and nothing else; when the rectangle spanned by the
\* two smoothed points (which the smoothers remember), normalized and
\* clamped to the frame, is at least min_rect_size wide and high, that
\* rectangle is stored and returned, whatever was stored before; the call
\* stores nothing else and returns what is stored.
C1_UpdateAcceptsRect ==
    [][ (op' = "update" /\ Len(args'.tips) >= 2) =>
          /\ rc'.smooth1 = EMASmoother_update(rc.smooth1, args'.tips[1]).sm
          /\ rc'.smooth2 = EMASmoother_update(rc.smooth2, args'.tips[2]).sm
          /\ rc'.cfg = rc.cfg
          /\ LET r == CornerRect(rc'.smooth1.prev[1], rc'.smooth2.prev[1],
                                 args'.w, args'.h)
             IN  /\ Accepts(r, rc.cfg.min_rect_size) =>
                       (rc'.last_rect = Some(r) /\ ret' = Some(r))
                 /\ rc'.last_rect \in {Some(r), rc.last_rect}
                 /\ ret' = rc'.last_rect ]_vars

\* C1 happens: three points in the small frame, the rectangle clamped to it
\* replaces a different one
C1_Witness ==
    /\ op = "update"
    /\ Len(args.tips) = 3
    /\ args.w = 4
    /\ ret = Some(Rect(0, 0, 3, 3))
    /\ rc.last_rect = ret
    /\ before # None
    /\ before # ret

\* C2: an update with fewer than two points on a controller that holds a
\* rectangle returns that rectangle and keeps it, whatever the frame size.
C2_GapPersistence ==
    (op = "update" /\ Len(args.tips) < 2 /\ before # None) =>
        (ret = before /\ rc.last_rect = before)

\* C2 happens: one point, and the rectangle accepted in the large frame is
\* returned in the small one
C2_Witness ==
    /\ op = "update"
    /\ Len(args.tips) = 1
    /\ args.w = 4
    /\ before = Some(Rect(0, 0, 5, 4))
    /\ ret = before

\* C3: an update with at least two points whose rectangle is smaller than
\* min_rect_size leaves the stored rectangle as it was and returns it; on a
\* fresh controller that is None.
C3_InvalidKeepsLast ==
    (op = "update" /\ Len(args.tips) >= 2) =>
        LET r == CornerRect(rc.smooth1.prev[1], rc.smooth2.prev[1],
                            args.w, args.h)
        IN  ~Accepts(r, rc.cfg.min_rect_size) =>
                (rc.last_rect = before /\ ret = before)

\* C3 happens: corners (0,0) and (2,2), min_rect_size 3, frame 640x480, on a
\* controller without a rectangle
C3_Witness ==
    /\ op = "update"
    /\ args = [tips |-> <<Point(0, 0), Point(2, 2)>>, w |-> 640, h |-> 480]
    /\ rc.smooth1.prev = Some(Point(0, 0))
    /\ rc.smooth2.prev = Some(Point(2, 2))
    /\ rc.cfg.min_rect_size = 3
    /\ before = None
    /\ ret = None

\* C4: after reset the controller is as RectangleController.__init__ leaves
\* it; the next update returns None for fewer than two points and takes two
\* points as first observations.
C4_ResetIsFresh ==
    /\ [](op = "reset" => rc = RectangleController(rc.cfg))
    /\ [][ (op = "reset" /\ op' = "update") =>
             IF Len(args'.tips) < 2
             THEN ret' = None /\ rc' = rc
             ELSE /\ rc'.smooth1.prev = Some(args'.tips[1])
                  /\ rc'.smooth2.prev = Some(args'.tips[2]) ]_vars

\* C4 happens: reset of a controller that held a rectangle
C4_Witness ==
    /\ op = "reset"
    /\ before # None
    /\ rc.last_rect = None

\* C5: an update on a controller that holds a rectangle returns a rectangle
\* and leaves one stored; only reset takes the stored rectangle away.
C5_OnlyResetClears ==
    /\ (op = "update" /\ before # None) => (ret # None /\ rc.last_rect # None)
    /\ (before # None /\ rc.last_rect = None) => op = "reset"

\* C5 happens: two points too close together, the rectangle held is returned
C5_Witness ==
    /\ op = "update"
    /\ args.tips = <<Point(0, 0), Point(2, 2)>>
    /\ before # None
    /\ ret = before

\* ------------------------------------------------------------------------
\* Properties of the smoother (under SmSpec)
\* ------------------------------------------------------------------------

\* r is the float v with its fraction dropped: between zero and v, and less
\* than one away from v
IsTruncation(r, v) ==
    IF v.neg
    THEN /\ r <= 0
         /\ FloatLeq(v, FloatOfInt(r))
         /\ ~FloatLeq(v, FloatOfInt(r - 1))
    ELSE /\ r >= 0
         /\ FloatLeq(FloatOfInt(r), v)
         /\ ~FloatLeq(FloatOfInt(r + 1), v)

\* the float alpha is 0.0
AlphaIsZero == sm.alpha = FloatOfInt(0)

\* the float alpha is 1.0
AlphaIsOne == sm.alpha = FloatOfInt(1)

\* C6: the first update after construction or reset returns the point it
\* was given, and the smoother remembers that point.
C6_FirstCallIdentity ==
    (sm_op = "update" /\ sm_before = None) =>
        (sm_ret = sm_arg /\ sm.prev = sm_arg)

\* C6 happens: a first update with a point off the origin and alpha = 0.4
C6_Witness ==
    /\ sm_op = "update"
    /\ sm_before = None
    /\ sm.alpha = FloatOfRatio(2, 5)
    /\ sm_ret = Some(Point(10, -7))

\* C7: an update of a smoother that remembers a point returns, on each axis,
\* the float previous * (1 - alpha) + observed * alpha truncated toward zero,
\* and remembers the point it returns.
C7_TruncatesTowardZero ==
    (sm_op = "update" /\ sm_before # None) =>
        /\ IsTruncation(sm_ret[1].x,
                        EMAValue(sm.alpha, sm_before[1].x, sm_arg[1].x))
        /\ IsTruncation(sm_ret[1].y,
                        EMAValue(sm.alpha, sm_before[1].y, sm_arg[1].y))
        /\ sm.prev = sm_ret

\* C7 happens: alpha = 0.4, from (0,0) to (10,-7): 4.0 gives 4 and -2.8
\* gives -2
C7_Witness ==
    /\ sm_op = "update"
    /\ sm.alpha = FloatOfRatio(2, 5)
    /\ sm_before = Some(Point(0, 0))
    /\ sm_arg = Some(Point(10, -7))
    /\ sm_ret = Some(Point(4, -2))

\* C8 as claimed: with alpha > 0, while the same point P is fed again and
\* again after the first point, the output gets strictly closer to P on
\* every axis where it is not yet at P.
C8_StrictlyCloser ==
    (sm_phase = "constant" /\ ~AlphaIsZero) =>
        /\ sm_before[1].x # sm_arg[1].x =>
              Abs(sm_ret[1].x - sm_arg[1].x) < Abs(sm_before[1].x - sm_arg[1].x)
        /\ sm_before[1].y # sm_arg[1].y =>
              Abs(sm_ret[1].y - sm_arg[1].y) < Abs(sm_before[1].y - sm_arg[1].y)

\* r is at most one away from the interval between a and b
WithinOne(r, a, b) == Min(a, b) - 1 <= r /\ r <= Max(a, b) + 1

\* C8 as amended: with alpha > 0, while the same point P is fed again and
\* again after the first point, the output stays on every axis within one
\* pixel of the interval between the previous output and P, and with
\* alpha = 1 it is P.
C8_NeverFartherThanOne ==
    (sm_phase = "constant" /\ ~AlphaIsZero) =>
        /\ WithinOne(sm_ret[1].x, sm_before[1].x, sm_arg[1].x)
        /\ WithinOne(sm_ret[1].y, sm_before[1].y, sm_arg[1].y)
        /\ AlphaIsOne => sm_ret = sm_arg

\* C8 happens: alpha = 0.4, (0,0) first and then (10,-7) again and again:
\* the output stays at (8,-5)
C8_Witness ==
    /\ sm_phase = "constant"
    /\ sm.alpha = FloatOfRatio(2, 5)
    /\ sm_first = Some(Point(0, 0))
    /\ sm_arg = Some(Point(10, -7))
    /\ sm_before = Some(Point(8, -5))
    /\ sm_ret = Some(Point(8, -5))

\* C9: with alpha = 0 every update returns the first point fed since
\* construction or reset, and the smoother keeps remembering it.
C9_AlphaZeroFrozen ==
    (sm_op = "update" /\ AlphaIsZero) =>
        (sm_ret = sm_first /\ sm.prev = sm_first)

\* C9 happens: alpha = 0, different points fed, the first one returned
C9_Witness ==
    /\ sm_op = "update"
    /\ AlphaIsZero
    /\ sm_phase = "mixed"
    /\ sm_first = Some(Point(10, -7))
    /\ sm_arg = Some(Point(-6, 8))
    /\ sm_ret = sm_first

\* C10: with alpha = 1 every update returns the point it was given, whatever
\* the smoother remembered.
C10_AlphaOneFollows ==
    (sm_op = "update" /\ AlphaIsOne) =>
        (sm_ret = sm_arg /\ sm.prev = sm_arg)

\* C10 happens: alpha = 1, a smoother that remembers (10,-7) is given (-6,8)
C10_Witness ==
    /\ sm_op = "update"
    /\ AlphaIsOne
    /\ sm_before = Some(Point(10, -7))
    /\ sm_arg = Some(Point(-6, 8))
    /\ sm_ret = sm_arg

\* ------------------------------------------------------------------------
\* Properties of construction and of calls of any kind (under CtorSpec)
\* ------------------------------------------------------------------------

\* the float f is below 0.0 or above 1.0
OutsideUnit(f) ==
    \/ f.neg /\ f.mag # BigZero(NumLimbs)
    \/ ~f.neg /\ BigLess(FloatOfInt(1).mag, f.mag)

\* v is a Rect of integers
IsRect(v) ==
    /\ DOMAIN v = {"x1", "y1", "x2", "y2"}
    /\ v.x1 \in Int /\ v.y1 \in Int /\ v.x2 \in Int /\ v.y2 \in Int

\* C11: constructing a controller, and with it its two smoothers, raises
\* ValueError exactly when alpha is below 0.0 or above 1.0; alpha = 0.0 and
\* alpha = 1.0 are accepted; a constructor that returns leaves both
\* smoothers with that alpha and no remembered point.
C11_ConstructionValidates ==
    op = "init" =>
        /\ exc \in {None, Some(ValueError)}
        /\ (exc = Some(ValueError)) <=> OutsideUnit(conf.smooth_alpha)
        /\ conf.smooth_alpha \in {FloatOfInt(0), FloatOfInt(1)} => exc = None
        /\ exc = None =>
              /\ rc.smooth1 = [alpha |-> conf.smooth_alpha, prev |-> None]
              /\ rc.smooth2 = [alpha |-> conf.smooth_alpha, prev |-> None]

\* C11 happens: alpha = 1.01 is refused
C11_Witness ==
    /\ op = "init"
    /\ conf.smooth_alpha = FloatOfLiteral(101, 100)
    /\ exc = Some(ValueError)

\* C12: an update never raises, whatever the controller holds, whatever the
\* point list and the frame size; it returns a Rect or None; an exception
\* comes from the constructor only.
C12_UpdateNeverFails ==
    /\ op = "update" =>
          /\ exc = None
          /\ ret = None \/ (Len(ret) = 1 /\ IsRect(ret[1]))
    /\ exc # None => op = "init"

\* C12 happens: a pair of points outside the frame, with negative
\* coordinates, in a frame of width 0 and height -1
C12_Witness ==
    /\ op = "update"
    /\ args = [tips |-> <<Point(-2, 5), Point(6, -1)>>, w |-> 0, h |-> -1]
    /\ exc = None
    /\ ret = Some(Rect(0, 0, 0, 0))

\* C13: a constructor that returns was given alpha in [0,1] and
\* min_rect_size >= 0; a negative min_rect_size is refused.
C13_ConfigValidated ==
    (op = "init" /\ exc = None) =>
        (~OutsideUnit(conf.smooth_alpha) /\ conf.min_rect_size >= 0)

\* ------------------------------------------------------------------------
\* Properties of Rect (under GeoSpec)
\* ------------------------------------------------------------------------

\* C14: ordered returns (min(x1,x2), min(y1,y2), max(x1,x2), max(y1,y2)):
\* x1 <= x2 and y1 <= y2 in the result, which keeps the pair of x values and
\* the pair of y values, each axis sorted on its own.
C14_OrderedSorts ==
    geo.op = "ordered" =>
        /\ geo.out.x1 <= geo.out.x2
        /\ geo.out.y1 <= geo.out.y2
        /\ {geo.out.x1, geo.out.x2} = {geo.rect.x1, geo.rect.x2}
        /\ {geo.out.y1, geo.out.y2} = {geo.rect.y1, geo.rect.y2}
        /\ geo.out.x1 = (IF geo.rect.x1 <= geo.rect.x2 THEN geo.rect.x1
                         ELSE geo.rect.x2)
        /\ geo.out.y2 = (IF geo.rect.y1 <= geo.rect.y2 THEN geo.rect.y2
                         ELSE geo.rect.y1)

\* C14 happens: the x pair is exchanged and the y pair is kept
C14_Witness ==
    /\ geo.op = "ordered"
    /\ geo.rect = Rect(5, 0, 1, 3)
    /\ geo.out = Rect(1, 0, 5, 3)

\* C15: ordered is a canonical form: ordered on the result of ordered
\* returns the same rectangle, and the result is the one ordered returns
\* for the same rectangle with its two corners exchanged.
C15_OrderedCanonical ==
    /\ [](geo.op = "ordered" =>
             geo.out = ordered(Rect(geo.rect.x2, geo.rect.y2,
                                    geo.rect.x1, geo.rect.y1)))
    /\ [][ (geo.op = "ordered" /\ geo'.op = "ordered") =>
             geo'.out = geo.out ]_vars

\* C15 happens: ordered on a rectangle given by its lower right and upper
\* left corners
C15_Witness ==
    /\ geo.op = "ordered"
    /\ geo.rect = Rect(5, 3, 1, 0)
    /\ geo.out = Rect(1, 0, 5, 3)

\* C16: for w > 0 and h > 0, clamp returns a rectangle with
\* 0 <= x1 <= x2 <= w - 1 and 0 <= y1 <= y2 <= h - 1, whatever the corners
\* and their order.
C16_ClampBounds ==
    (geo.op = "clamp" /\ geo.w > 0 /\ geo.h > 0) =>
        /\ 0 <= geo.out.x1 /\ geo.out.x1 <= geo.out.x2
        /\ geo.out.x2 <= geo.w - 1
        /\ 0 <= geo.out.y1 /\ geo.out.y1 <= geo.out.y2
        /\ geo.out.y2 <= geo.h - 1

\* C16 happens: corners in the opposite order, negative and beyond a 4x4
\* frame
C16_Witness ==
    /\ geo.op = "clamp"
    /\ geo.rect = Rect(5, -2, -2, 5)
    /\ geo.w = 4
    /\ geo.h = 4
    /\ geo.out = Rect(0, 0, 3, 3)

\* C17: valid(min_size) is true exactly when x2 - x1 >= min_size and
\* y2 - y1 >= min_size: true when both are min_size, false when one of them
\* is min_size - 1.
C17_ValidBoundary ==
    geo.op = "valid" =>
        LET dx == geo.rect.x2 - geo.rect.x1
            dy == geo.rect.y2 - geo.rect.y1
        IN  /\ geo.ok <=> (dx >= geo.min_size /\ dy >= geo.min_size)
            /\ (dx = geo.min_size /\ dy = geo.min_size) => geo.ok
            /\ (dx = geo.min_size - 1 \/ dy = geo.min_size - 1) => ~geo.ok

\* C17 happens: 3 wide and 3 high against min_size 3
C17_Witness ==
    /\ geo.op = "valid"
    /\ geo.rect = Rect(0, 0, 3, 3)
    /\ geo.min_size = 3
    /\ geo.ok

\* ------------------------------------------------------------------------
\* Properties of the scenario (under ScenarioSpec)
\* ------------------------------------------------------------------------

\* C18: a controller with alpha = 0.4 and min_rect_size = 3, fresh, in frames
\* of 640x480: update([(100,100),(200,200)]) returns (100,100,200,200), then
\* update([(140,100),(200,160)]) returns (116,100,200,184), then update([])
\* returns (116,100,200,184) again.
C18_ScenarioABC ==
    /\ script = 1 => ret = Some(Rect(100, 100, 200, 200))
    /\ script = 2 => ret = Some(Rect(116, 100, 200, 184))
    /\ script = 3 => ret = Some(Rect(116, 100, 200, 184))
    /\ script > 0 => rc.last_rect = ret

\* C18 happens: the third frame of the scenario, without points, right after
\* the first two
C18_Witness ==
    /\ script = 3
    /\ op = "update"
    /\ args = [tips |-> <<>>, w |-> 640, h |-> 480]
    /\ before = Some(Rect(116, 100, 200, 184))
    /\ ret = Some(Rect(116, 100, 200, 184))
    /\ rc.smooth1.prev = Some(Point(116, 100))
    /\ rc.smooth2.prev = Some(Point(200, 184))

\* ------------------------------------------------------------------------
\* Properties of InverterApp.run() (under RunSpec)
\* ------------------------------------------------------------------------

\* close() was called: camera released, tracker closed, windows destroyed
Closed == app.released /\ app.tracker_closed /\ app.windows_destroyed

\* C19: run() ends only after close(), and every way out of the loop leads
\* to close(): a failed read, the q key, a window that is no longer
\* visible and an exception in the frame each end the loop at once.
C19_RunEndsWithClose ==
    /\ app.pc = "done" => Closed
    /\ (app.last = "read" /\ ~app.ok) => app.pc = "close"
    /\ (app.last = "frame" /\ app.raised) => app.pc = "close"
    /\ (app.last = "key" /\ app.key = OrdQ) => app.pc = "close"
    /\ (app.last = "key" /\ app.visible < 1) => app.pc = "close"
    /\ app.last = "close" => app.pc = "done"

\* the frame in hand was processed after the R key: the key was handled at
\* the end of the frame before, and the loop went on
AfterResetKey == app.last = "frame" /\ app.key = OrdR

\* what C20 says of the frame during which R is pressed and of the next one:
\* the rectangle of the frame was computed, inverted, drawn and shown before
\* the reset; the controller is then as constructed; the next frame, with
\* fewer than two points, has no rectangle inverted or drawn, and with two
\* points takes them as first observations
ResetEffect ==
    /\ (app.last = "key" /\ app.key = OrdR) =>
          /\ app.frame.shown
          /\ app.frame.rect # None => (app.frame.inverted /\ app.frame.drawn)
          /\ rc = RectangleController(rc.cfg)
    /\ (AfterResetKey /\ Len(app.frame.tips) < 2) =>
          /\ app.frame.rect = None
          /\ ~app.frame.inverted
          /\ ~app.frame.drawn
    /\ (AfterResetKey /\ Len(app.frame.tips) >= 2) =>
          /\ before = None
          /\ rc.smooth1.prev = Some(app.frame.tips[1])
          /\ rc.smooth2.prev = Some(app.frame.tips[2])

\* C20 as claimed: the R key resets the controller after the rectangle of
\* the frame was computed and shown, and the loop goes on; the next frame
\* starts from the initial controller state, so that with fewer than two
\* points no rectangle is inverted or drawn.
C20_ResetContinues ==
    /\ ResetEffect
    /\ (app.last = "key" /\ app.key = OrdR) => app.pc = "read"

\* C20 as amended: the same, and the loop goes on unless the package app
\* finds its window no longer visible, which ends the loop.
C20_ResetThenFresh ==
    /\ ResetEffect
    /\ (app.last = "key" /\ app.key = OrdR) =>
          IF app.impl = "package" /\ app.visible < 1
          THEN app.pc = "close"
          ELSE app.pc = "read"

\* C20 happens: the frame after the R key has one point, and nothing is
\* inverted or drawn
C20_Witness ==
    /\ AfterResetKey
    /\ app.impl = "package"
    /\ app.frame.tips = <<Point(0, 0)>>
    /\ app.frame.rect = None
    /\ ~app.frame.inverted
    /\ app.frame.shown

\* ------------------------------------------------------------------------
\* Invariants of the controller (under Spec)
\* ------------------------------------------------------------------------

\* r has its corners in order
Normalized(r) == r.x1 <= r.x2 /\ r.y1 <= r.y2

\* r lies in [0, w-1] x [0, h-1] for f = <<w, h>>
InFrame(r, f) ==
    /\ 0 <= r.x1 /\ r.x1 <= f[1] - 1
    /\ 0 <= r.x2 /\ r.x2 <= f[1] - 1
    /\ 0 <= r.y1 /\ r.y1 <= f[2] - 1
    /\ 0 <= r.y2 /\ r.y2 <= f[2] - 1

\* C21: with frames of positive width and height, every rectangle update
\* returns is normalized, is at least min_rect_size wide and high, and lies
\* in [0, w-1] x [0, h-1] for the w and h of the update call that stored it
\* (so its coordinates are not negative, and calls that all have one frame
\* size return rectangles inside that frame).
C21_ReturnedRectInFrame ==
    (op = "update" /\ ret # None) =>
        /\ Normalized(ret[1])
        /\ Accepts(ret[1], rc.cfg.min_rect_size)
        /\ accepted # None
        /\ InFrame(ret[1], accepted[1])

\* C21 happens: the rectangle stored in the 640x480 frame is returned by a
\* call with one point in the 4x4 frame, where it reaches past the frame
C21_Witness ==
    /\ op = "update"
    /\ Len(args.tips) = 1
    /\ args.w = 4
    /\ ret = Some(Rect(0, 0, 5, 4))
    /\ accepted = Some(<<640, 480>>)

\* C22: an update with fewer than two points leaves the controller as it
\* was: both remembered points and the stored rectangle; a single point is
\* not fed to smoother 1, so the update with two points that follows
\* smooths against the points the controller held before the gap.
C22_GapChangesNothing ==
    /\ [][ (op' = "update" /\ Len(args'.tips) < 2) => rc' = rc ]_vars
    /\ [][ (op = "update" /\ Len(args.tips) < 2 /\ before # None
            /\ op' = "update" /\ Len(args'.tips) >= 2) =>
             /\ rc'.smooth1.prev =
                  Some(Point(EMAAxis(rc.smooth1.alpha, rc.smooth1.prev[1].x,
                                     args'.tips[1].x),
                             EMAAxis(rc.smooth1.alpha, rc.smooth1.prev[1].y,
                                     args'.tips[1].y)))
             /\ rc'.smooth2.prev =
                  Some(Point(EMAAxis(rc.smooth2.alpha, rc.smooth2.prev[1].x,
                                     args'.tips[2].x),
                             EMAAxis(rc.smooth2.alpha, rc.smooth2.prev[1].y,
                                     args'.tips[2].y))) ]_vars

\* C22 happens: the single point (5,4) while smoother 1 remembers (0,0) and
\* a rectangle is stored
C22_Witness ==
    /\ op = "update"
    /\ args.tips = <<Point(5, 4)>>
    /\ rc.smooth1.prev = Some(Point(0, 0))
    /\ rc.smooth2.prev # None
    /\ rc.last_rect # None
    /\ ret = rc.last_rect

\* C23: an update with at least two points whose rectangle is rejected
\* still moves both smoothers to the smoothed points of this call, which
\* the next call smooths against; only the stored rectangle stays as it
\* was, and it is returned.
C23_RejectedStillSmooths ==
    [][ (op' = "update" /\ Len(args'.tips) >= 2) =>
          /\ rc'.smooth1 = EMASmoother_update(rc.smooth1, args'.tips[1]).sm
          /\ rc'.smooth2 = EMASmoother_update(rc.smooth2, args'.tips[2]).sm
          /\ rc'.smooth1.prev # None
          /\ rc'.smooth2.prev # None
          /\ ~Accepts(CornerRect(rc'.smooth1.prev[1], rc'.smooth2.prev[1],
                                 args'.w, args'.h),
                      rc.cfg.min_rect_size) =>
                 (rc'.last_rect = rc.last_rect /\ ret' = rc.last_rect) ]_vars

\* C23 happens: the pair (0,0), (2,2) is rejected, the rectangle (0,0,5,4)
\* stays, and smoother 2 has left (5,4) for (2,2)
C23_Witness ==
    /\ op = "update"
    /\ args.tips = <<Point(0, 0), Point(2, 2)>>
    /\ before = Some(Rect(0, 0, 5, 4))
    /\ rc.last_rect = before
    /\ ret = before
    /\ rc.smooth1.prev = Some(Point(0, 0))
    /\ rc.smooth2.prev = Some(Point(2, 2))

\* C24: in every state of the controller, smoother 1 remembers a point if
\* and only if smoother 2 does.
C24_SlotsInStep ==
    (rc.smooth1.prev = None) <=> (rc.smooth2.prev = None)

\* C24 happens: the first pair of points is rejected, no rectangle is
\* stored, and both smoothers remember their point
C24_Witness ==
    /\ op = "update"
    /\ Len(args.tips) >= 2
    /\ before = None
    /\ rc.last_rect = None
    /\ rc.smooth1.prev = Some(args.tips[1])
    /\ rc.smooth2.prev = Some(args.tips[2])

\* C25: in every state of the controller that stores a rectangle, both
\* smoothers remember a point.
C25_RectImpliesTracking ==
    rc.last_rect # None =>
        (rc.smooth1.prev # None /\ rc.smooth2.prev # None)

\* C25 happens: a rectangle is stored, and kept over an update without
\* points
C25_Witness ==
    /\ op = "update"
    /\ args.tips = <<>>
    /\ rc.last_rect # None
    /\ rc.smooth1.prev # None
    /\ rc.smooth2.prev # None

\* ------------------------------------------------------------------------
\* Overshoot of the smoother (under SmSpec)
\* ------------------------------------------------------------------------

\* v lies in the closed interval between a and b
Between(v, a, b) == Min(a, b) <= v /\ v <= Max(a, b)

\* C26: for alpha in [0,1], each coordinate of the point an update on a
\* smoother that remembers a point returns lies in the closed interval
\* between the remembered coordinate and the observed one, so the output
\* moves by no more than the distance from the remembered point to the
\* observation.
C26_NoOvershoot ==
    (sm_op = "update" /\ sm_before # None) =>
        /\ Between(sm_ret[1].x, sm_before[1].x, sm_arg[1].x)
        /\ Between(sm_ret[1].y, sm_before[1].y, sm_arg[1].y)
        /\ Abs(sm_ret[1].x - sm_before[1].x)
             <= Abs(sm_arg[1].x - sm_before[1].x)
        /\ Abs(sm_ret[1].y - sm_before[1].y)
             <= Abs(sm_arg[1].y - sm_before[1].y)

\* ------------------------------------------------------------------------
\* main.py against the package (under EquivSpec)
\* ------------------------------------------------------------------------

\* C27: built from one configuration and given the same update and reset
\* calls, the RectangleController of main.py and the one of the package
\* both are built or both raise the same exception, and at every call they
\* return the same rectangle (coordinate by coordinate) or both None.
C27_MainEqualsPackage ==
    op # "start" =>
        /\ main_exc = exc
        /\ main_ret = ret
        /\ main_rc.last_rect = rc.last_rect

\* C27 happens: both return a rectangle that differs from the one stored
\* before the call, clamped to the 4x4 frame
C27_Witness ==
    /\ op = "update"
    /\ args.w = 4
    /\ before # None
    /\ ret # None
    /\ ret # before
    /\ ret[1].x2 = 3
    /\ main_ret = ret

====
